---- MODULE Spec2Model ----
(***************************************************************************)
(* A model of errorblob's storage backends:                                *)
(*   LocalStorage       src/src/errorblob/storage/local.py                 *)
(*   TurbopufferStorage src/src/errorblob/storage/turbopuffer_backend.py   *)
(* and of the entry model src/src/errorblob/models.py.                     *)
(*                                                                         *)
(* Text is a sequence of one-character strings.  A score is a rational     *)
(* <<numerator, denominator>> with a positive denominator; the source      *)
(* computes in binary floating point, and on the texts used here every     *)
(* comparison the source makes (with 0.2, and between two scores) has the  *)
(* same outcome in both arithmetics.                                       *)
(***************************************************************************)
EXTENDS Integers, Sequences, FiniteSets, TLC

VARIABLES
    storage_mode,   \* which backend get_storage constructed
    file,           \* LocalStorage: the JSON file, a list of dumped entries
    ns,             \* TurbopufferStorage: the namespace, a set of rows
    mediumUp,       \* the remote medium answers (TRUE) or raises (FALSE)
    procs,          \* per process: where its commit stands, and its local list
    ret             \* the last contract call: operation, argument, outcome

vars == <<storage_mode, file, ns, mediumUp, procs, ret>>

----------------------------------------------------------------------------
(* Bounds of the model *)

MaxEntries == 3     \* commits are cut off at this many stored entries
MaxTags == 2        \* an entry committed under SpecTags has at most this many tags

----------------------------------------------------------------------------
(* models.py: ErrorEntry, SearchResult *)

None == "None"

ErrorEntry(id, error_text, message, created_at, author, tags) ==
    [id |-> id, error_text |-> error_text, message |-> message,
     created_at |-> created_at, author |-> author, tags |-> tags]

SearchResult(entry, score) == [entry |-> entry, score |-> score]

(* datetime.isoformat / datetime.fromisoformat: a datetime is a number of
   ticks, its ISO-8601 text is tagged as text *)
isoformat(t) == <<"iso", t>>

fromisoformat(s) == s[2]

(* BaseModel.model_dump(mode="json"): the datetime becomes ISO text; an
   optional string is JSON null, written <<>>, or a JSON string, <<s>> *)
model_dump(e) ==
    [id |-> e.id, error_text |-> e.error_text, message |-> e.message,
     created_at |-> isoformat(e.created_at),
     author |-> IF e.author = None THEN <<>> ELSE <<e.author>>,
     tags |-> e.tags]

(* BaseModel.model_validate: the inverse reading of a JSON object *)
model_validate(o) ==
    ErrorEntry(o.id, o.error_text, o.message, fromisoformat(o.created_at),
               IF o.author = <<>> THEN None ELSE o.author[1], o.tags)

----------------------------------------------------------------------------
(* Text: str.lower, the `in` substring test *)

LowerChar(c) ==
    CASE c = "A" -> "a"
      [] c = "B" -> "b"
      [] c = "C" -> "c"
      [] OTHER -> c

lower(s) == [i \in 1..Len(s) |-> LowerChar(s[i])]

\* x in y, for strings
IsSubstring(x, y) ==
    \E i \in 0..(Len(y) - Len(x)) : SubSeq(y, i + 1, i + Len(x)) = x

----------------------------------------------------------------------------
(* difflib.SequenceMatcher(None, a, b).ratio(), without junk: autojunk only
   acts on a second sequence of 200 or more elements.  Offsets are 0-based
   and ranges half-open, as in difflib. *)

Min(x, y) == IF x < y THEN x ELSE y

Max(x, y) == IF x > y THEN x ELSE y

\* the length of the longest common run starting at a[i], b[j] within the ranges
RunLength(a, b, i, j, ahi, bhi) ==
    LET ks == {k \in 0..Min(ahi - i, bhi - j) :
                  \A t \in 0..(k - 1) : a[i + t + 1] = b[j + t + 1]}
    IN  CHOOSE k \in ks : \A k2 \in ks : k2 <= k

\* find_longest_match: the longest block, the earliest in a, then earliest in b
find_longest_match(a, b, alo, ahi, blo, bhi) ==
    LET blocks == {<<i, j, RunLength(a, b, i, j, ahi, bhi)>> :
                      i \in alo..(ahi - 1), j \in blo..(bhi - 1)}
        real == {m \in blocks : m[3] > 0}
    IN  IF real = {} THEN <<alo, blo, 0>>
        ELSE CHOOSE m \in real :
                \A m2 \in real :
                    \/ m[3] > m2[3]
                    \/ m[3] = m2[3] /\ m[1] < m2[1]
                    \/ m[3] = m2[3] /\ m[1] = m2[1] /\ m[2] <= m2[2]

RECURSIVE MatchingSize(_, _, _, _, _, _)
\* get_matching_blocks, summed: the block, then the pieces left and right of it
MatchingSize(a, b, alo, ahi, blo, bhi) ==
    LET m == find_longest_match(a, b, alo, ahi, blo, bhi)
        i == m[1]
        j == m[2]
        k == m[3]
    IN  IF k = 0 THEN 0
        ELSE k
             + (IF alo < i /\ blo < j
                THEN MatchingSize(a, b, alo, i, blo, j) ELSE 0)
             + (IF i + k < ahi /\ j + k < bhi
                THEN MatchingSize(a, b, i + k, ahi, j + k, bhi) ELSE 0)

\* ratio with the test `if length:` written as `if matches:`
ratio_if_matches(a, b) ==
    LET matches == MatchingSize(a, b, 0, Len(a), 0, Len(b))
    IN  IF matches > 0 THEN <<2 * matches, Len(a) + Len(b)>> ELSE <<1, 1>>

\* _calculate_ratio: 2.0 * matches / length, and 1.0 for two empty sequences
ratio(a, b) ==
    LET length == Len(a) + Len(b)
    IN  IF length > 0
        THEN <<2 * MatchingSize(a, b, 0, Len(a), 0, Len(b)), length>>
        ELSE <<1, 1>>

----------------------------------------------------------------------------
(* Arithmetic on scores *)

Less(x, y) == x[1] * y[2] < y[1] * x[2]

Plus(x, y) == <<x[1] * y[2] + y[1] * x[2], x[2] * y[2]>>

Times(x, y) == <<x[1] * y[1], x[2] * y[2]>>

MaxScore(x, y) == IF Less(x, y) THEN y ELSE x

SubstringScore == <<9, 10>>

MessageWeight == <<3, 10>>

Threshold == <<2, 10>>

----------------------------------------------------------------------------
(* LocalStorage *)

_load_entries(f) == [i \in 1..Len(f) |-> model_validate(f[i])]

_save_entries(entries) == [i \in 1..Len(entries) |-> model_dump(entries[i])]

\* base_score with the substring test in one direction only
base_score_one_way(query_lower, entry) ==
    LET error_lower == lower(entry.error_text)
    IN  IF IsSubstring(query_lower, error_lower)
        THEN SubstringScore
        ELSE ratio(query_lower, error_lower)

\* the base score of lines 51-58
base_score(query_lower, entry) ==
    LET error_lower == lower(entry.error_text)
    IN  IF IsSubstring(query_lower, error_lower) \/ IsSubstring(error_lower, query_lower)
        THEN SubstringScore
        ELSE ratio(query_lower, error_lower)

\* lines 61-65
combined_score(query, entry) ==
    LET query_lower == lower(query)
        score == base_score(query_lower, entry)
        message_score == Times(ratio(query_lower, lower(entry.message)), MessageWeight)
    IN  MaxScore(score, Plus(score, message_score))

\* is_relevant with >= for >
is_relevant_inclusive(combined) == ~Less(combined, Threshold)

\* line 67
is_relevant(combined) == Less(Threshold, combined)

RECURSIVE scored(_, _)
\* the loop of lines 49-68: the kept results, in the order of the file
scored(entries, query) ==
    IF entries = <<>> THEN <<>>
    ELSE LET entry == Head(entries)
             combined == combined_score(query, entry)
             rest == scored(Tail(entries), query)
         IN  IF is_relevant(combined)
             THEN <<SearchResult(entry, combined)>> \o rest
             ELSE rest

RECURSIVE InsertDesc(_, _)
\* r goes behind every result whose score is not lower than its own
InsertDesc(sorted, r) ==
    IF sorted = <<>> THEN <<r>>
    ELSE IF Less(Head(sorted).score, r.score)
         THEN <<r>> \o sorted
         ELSE <<Head(sorted)>> \o InsertDesc(Tail(sorted), r)

\* sort_desc with the sort left out
sort_none(results) == results

RECURSIVE sort_desc(_)
\* results.sort(key=score, reverse=True): stable, descending
sort_desc(results) ==
    IF results = <<>> THEN <<>>
    ELSE InsertDesc(sort_desc(SubSeq(results, 1, Len(results) - 1)),
                    results[Len(results)])

\* slice_to that cuts at limit + 1
slice_off_by_one(results, limit) ==
    IF limit + 1 >= 0
    THEN SubSeq(results, 1, Min(limit + 1, Len(results)))
    ELSE SubSeq(results, 1, Max(Len(results) + limit + 1, 0))

\* results[:limit]
slice_to(results, limit) ==
    IF limit >= 0
    THEN SubSeq(results, 1, Min(limit, Len(results)))
    ELSE SubSeq(results, 1, Max(Len(results) + limit, 0))

local_search(f, query, limit) ==
    slice_to(sort_desc(scored(_load_entries(f), query)), limit)

local_get_all(f) == _load_entries(f)

\* count of the distinct ids instead of the records
local_count_ids(f) == Cardinality({_load_entries(f)[i].id : i \in 1..Len(f)})

local_count(f) == Len(_load_entries(f))

RECURSIVE without_first(_, _)
\* without_id that drops the first match only
without_first(entries, error_id) ==
    IF entries = <<>> THEN <<>>
    ELSE IF Head(entries).id # error_id
         THEN <<Head(entries)>> \o without_first(Tail(entries), error_id)
         ELSE Tail(entries)

RECURSIVE without_id(_, _)
\* lines 80-82: the entries kept by delete
without_id(entries, error_id) ==
    IF entries = <<>> THEN <<>>
    ELSE IF Head(entries).id # error_id
         THEN <<Head(entries)>> \o without_id(Tail(entries), error_id)
         ELSE without_id(Tail(entries), error_id)

\* commit that saves the new entry alone
local_commit_overwrite(f, entry) == _save_entries(<<entry>>)

\* commit that puts the new entry first
local_commit_prepend(f, entry) == _save_entries(<<entry>> \o _load_entries(f))

\* commit: load, append, save
local_commit(f, entry) == _save_entries(Append(_load_entries(f), entry))

\* delete: the file afterwards and the value returned
local_delete(f, error_id) ==
    LET entries == _load_entries(f)
        kept == without_id(entries, error_id)
    IN  IF Len(kept) < Len(entries)
        THEN [file |-> _save_entries(kept), result |-> TRUE]
        ELSE [file |-> f, result |-> FALSE]

----------------------------------------------------------------------------
(* TurbopufferStorage *)

Comma == ","

Space == " "

RECURSIVE join_no_separator(_)
\* join with the separator left out
join_no_separator(tags) ==
    IF tags = <<>> THEN <<>>
    ELSE tags[1] \o join_no_separator(Tail(tags))

RECURSIVE join(_)
\* ",".join(tags)
join(tags) ==
    IF tags = <<>> THEN <<>>
    ELSE IF Len(tags) = 1 THEN tags[1]
    ELSE tags[1] \o <<Comma>> \o join(Tail(tags))

RECURSIVE split(_)
\* s.split(","): always at least one piece
split(s) ==
    IF \A i \in 1..Len(s) : s[i] # Comma THEN <<s>>
    ELSE LET i == CHOOSE k \in 1..Len(s) :
                     s[k] = Comma /\ \A k2 \in 1..(k - 1) : s[k2] # Comma
         IN  <<SubSeq(s, 1, i - 1)>> \o split(SubSeq(s, i + 1, Len(s)))

RECURSIVE strip(_)
\* t.strip()
strip(t) ==
    IF t = <<>> THEN <<>>
    ELSE IF t[1] = Space THEN strip(Tail(t))
    ELSE IF t[Len(t)] = Space THEN strip(SubSeq(t, 1, Len(t) - 1))
    ELSE t

RECURSIVE stripped_nonempty(_)
\* [t.strip() for t in pieces if t.strip()]
stripped_nonempty(pieces) ==
    IF pieces = <<>> THEN <<>>
    ELSE IF strip(Head(pieces)) # <<>>
         THEN <<strip(Head(pieces))>> \o stripped_nonempty(Tail(pieces))
         ELSE stripped_nonempty(Tail(pieces))

\* lines 40-53: the row commit upserts
row_of(entry) ==
    [id |-> entry.id, error_text |-> entry.error_text, message |-> entry.message,
     combined_text |-> entry.error_text \o <<Space>> \o entry.message,
     created_at |-> isoformat(entry.created_at),
     author |-> IF entry.author = None \/ entry.author = "" THEN "" ELSE entry.author,
     tags |-> IF entry.tags # <<>> THEN join(entry.tags) ELSE <<>>]

\* lines 99-119 and 140-160: a row read back as an entry
entry_of(row) ==
    ErrorEntry(row.id, row.error_text, row.message, fromisoformat(row.created_at),
               IF row.author = "" THEN None ELSE row.author,
               stripped_nonempty(split(row.tags)))

\* the medium: ns.write(upsert_rows=[row]) replaces or adds the row of that id
upsert(n, row) == {r \in n : r.id # row.id} \cup {row}

\* the medium: ns.write(deletes=[id]) drops the row of that id, if there is one
deletes(n, error_id) == {r \in n : r.id # error_id}

\* the orders in which the medium may export the rows of n
ExportOrders(n) ==
    {o \in [1..Cardinality(n) -> n] : \A i, j \in DOMAIN o : i # j => o[i] # o[j]}

\* the answers the medium may give to a ranked query for top_k rows: some of
\* the rows, each once, in the medium's order
QueryAnswers(n, top_k) ==
    UNION {{o \in [1..k -> n] : \A i, j \in DOMAIN o : i # j => o[i] # o[j]} :
             k \in 0..Min(Max(top_k, 0), Cardinality(n))}

\* commit: the namespace afterwards and whether the call raised
remote_commit(n, up, entry) ==
    IF up THEN [ns |-> upsert(n, row_of(entry)), raised |-> FALSE]
    ELSE [ns |-> n, raised |-> TRUE]

\* search: the rows the medium answered with, as results (the rows carry no
\* $dist here, so the score is the default 0.0); `except Exception: return []`
remote_search(n, up, answer) ==
    IF up
    THEN [result |-> [i \in 1..Len(answer) |->
                        SearchResult(entry_of(answer[i]), <<0, 1>>)],
          raised |-> FALSE]
    ELSE [result |-> <<>>, raised |-> FALSE]

\* get_all without its try/except
remote_get_all_uncaught(n, up, order) ==
    IF up
    THEN [result |-> [i \in 1..Len(order) |-> entry_of(order[i])], raised |-> FALSE]
    ELSE [result |-> <<>>, raised |-> TRUE]

\* get_all: the exported rows as entries; `except Exception: return []`
remote_get_all(n, up, order) ==
    IF up
    THEN [result |-> [i \in 1..Len(order) |-> entry_of(order[i])], raised |-> FALSE]
    ELSE [result |-> <<>>, raised |-> FALSE]

\* delete: line 173 then `return True`; `except Exception: return False`
remote_delete(n, up, error_id) ==
    IF up THEN [ns |-> deletes(n, error_id), result |-> TRUE, raised |-> FALSE]
    ELSE [ns |-> n, result |-> FALSE, raised |-> FALSE]

\* count: len(self.get_all()); it raises only if get_all does
remote_count(n, up, order) ==
    LET all == remote_get_all(n, up, order)
    IN  IF all.raised THEN [result |-> 0, raised |-> TRUE]
        ELSE [result |-> Len(all.result), raised |-> FALSE]

----------------------------------------------------------------------------
(* The calls the command line makes (cli.py), one action per contract
   operation and backend.  ret records the call and what it gave back. *)

LOCAL_MODE == "local"

TURBOPUFFER_MODE == "turbopuffer"

Ids == {"u1", "u2"}

Authors == {None, "bob"}

TagLists == {<<>>, <<<<"x">>, <<"y">>>>}

\* the entries committed under Spec
StoreEntries ==
    {ErrorEntry(id, <<"a", "B">>, <<"a">>, 0, author, tags) :
        id \in Ids, author \in Authors, tags \in TagLists}

ErrorTexts == {<<>>, <<"B">>, <<"B", "a">>}

Messages == {<<>>, <<"a", "B">>}

Queries == {<<>>, <<"a">>, <<"A", "b">>}

\* search's default limit
DefaultLimit == 5

Limits == {-1, 0, 1, 2, DefaultLimit}

\* the entries committed under SpecSearch
SearchEntries ==
    {ErrorEntry("u1", error_text, message, 0, None, <<>>) :
        error_text \in ErrorTexts, message \in Messages}

\* a call: the operation first, so that two calls are told apart by it
Call(op, arg, result, raised) == <<op, arg, result, raised>>

CallOp(c) == c[1]

CallArg(c) == c[2]

CallResult(c) == c[3]

CallRaised(c) == c[4]

LocalCommit(entry) ==
    /\ storage_mode = LOCAL_MODE
    /\ Len(file) < MaxEntries
    /\ file' = local_commit(file, entry)
    /\ ret' = Call("commit", entry, None, FALSE)
    /\ UNCHANGED <<procs, storage_mode, ns, mediumUp>>

LocalSearch(query, limit) ==
    /\ storage_mode = LOCAL_MODE
    /\ ret' = Call("search", <<query, limit>>, local_search(file, query, limit), FALSE)
    /\ UNCHANGED <<procs, storage_mode, file, ns, mediumUp>>

LocalGetAll ==
    /\ storage_mode = LOCAL_MODE
    /\ ret' = Call("get_all", None, local_get_all(file), FALSE)
    /\ UNCHANGED <<procs, storage_mode, file, ns, mediumUp>>

LocalDelete(error_id) ==
    /\ storage_mode = LOCAL_MODE
    /\ file' = local_delete(file, error_id).file
    /\ ret' = Call("delete", error_id, local_delete(file, error_id).result, FALSE)
    /\ UNCHANGED <<procs, storage_mode, ns, mediumUp>>

LocalCount ==
    /\ storage_mode = LOCAL_MODE
    /\ ret' = Call("count", None, local_count(file), FALSE)
    /\ UNCHANGED <<procs, storage_mode, file, ns, mediumUp>>

RemoteCommit(entry) ==
    /\ storage_mode = TURBOPUFFER_MODE
    /\ ns' = remote_commit(ns, mediumUp, entry).ns
    /\ ret' = Call("commit", entry, None, remote_commit(ns, mediumUp, entry).raised)
    /\ UNCHANGED <<procs, storage_mode, file, mediumUp>>

RemoteSearch(query, limit) ==
    /\ storage_mode = TURBOPUFFER_MODE
    /\ \E answer \in QueryAnswers(ns, limit) :
          ret' = Call("search", <<query, limit>>,
                      remote_search(ns, mediumUp, answer).result,
                      remote_search(ns, mediumUp, answer).raised)
    /\ UNCHANGED <<procs, storage_mode, file, ns, mediumUp>>

RemoteGetAll ==
    /\ storage_mode = TURBOPUFFER_MODE
    /\ \E order \in ExportOrders(ns) :
          ret' = Call("get_all", None,
                      remote_get_all(ns, mediumUp, order).result,
                      remote_get_all(ns, mediumUp, order).raised)
    /\ UNCHANGED <<procs, storage_mode, file, ns, mediumUp>>

RemoteDelete(error_id) ==
    /\ storage_mode = TURBOPUFFER_MODE
    /\ ns' = remote_delete(ns, mediumUp, error_id).ns
    /\ ret' = Call("delete", error_id,
                    remote_delete(ns, mediumUp, error_id).result,
                    remote_delete(ns, mediumUp, error_id).raised)
    /\ UNCHANGED <<procs, storage_mode, file, mediumUp>>

RemoteCount ==
    /\ storage_mode = TURBOPUFFER_MODE
    /\ \E order \in ExportOrders(ns) :
          ret' = Call("count", None,
                      remote_count(ns, mediumUp, order).result,
                      remote_count(ns, mediumUp, order).raised)
    /\ UNCHANGED <<procs, storage_mode, file, ns, mediumUp>>

\* the remote service goes down or comes back
MediumFlip ==
    /\ storage_mode = TURBOPUFFER_MODE
    /\ mediumUp' = ~mediumUp
    /\ UNCHANGED <<procs, storage_mode, file, ns, ret>>

NoCall == Call("none", None, None, FALSE)

\* the processes that run the command line against the same file
Procs == {"p1", "p2"}

\* a process that is not inside a commit
Idle == [pc |-> "idle", entry |-> <<>>, entries |-> <<>>]

\* get_storage built one backend; a fresh file holds [], a fresh namespace nothing
Init ==
    /\ storage_mode \in {LOCAL_MODE, TURBOPUFFER_MODE}
    /\ file = _save_entries(<<>>)
    /\ ns = {}
    /\ mediumUp = TRUE
    /\ procs = [p \in Procs |-> Idle]
    /\ ret = NoCall

Next ==
    \/ \E entry \in StoreEntries : LocalCommit(entry)
    \/ \E error_id \in Ids : LocalDelete(error_id)
    \/ LocalGetAll
    \/ LocalCount
    \/ \E entry \in StoreEntries : RemoteCommit(entry)
    \/ \E limit \in Limits : RemoteSearch(<<"a">>, limit)
    \/ RemoteGetAll
    \/ \E error_id \in Ids : RemoteDelete(error_id)
    \/ RemoteCount
    \/ MediumFlip

Spec == Init /\ [][Next]_vars

\* the local backend with texts that exercise the scoring
InitSearch ==
    /\ storage_mode = LOCAL_MODE
    /\ file = _save_entries(<<>>)
    /\ ns = {}
    /\ mediumUp = TRUE
    /\ procs = [p \in Procs |-> Idle]
    /\ ret = NoCall

NextSearch ==
    \/ \E entry \in SearchEntries : LocalCommit(entry)
    \/ \E query \in Queries, limit \in Limits : LocalSearch(query, limit)

SpecSearch == InitSearch /\ [][NextSearch]_vars

\* _save_entries that opens the file with "a" instead of "w"
save_appending(f, entries) == f \o _save_entries(entries)

\* _save_entries on the file f: open(path, "w") drops what f held
save_truncating(f, entries) == _save_entries(entries)

\* process p enters commit(entry)
CommitCall(p, entry) ==
    /\ storage_mode = LOCAL_MODE
    /\ procs[p].pc \in {"idle", "done"}
    /\ Len(file) < MaxEntries
    /\ procs' = [procs EXCEPT ![p] = [pc |-> "load", entry |-> <<entry>>, entries |-> <<>>]]
    /\ UNCHANGED <<storage_mode, file, ns, mediumUp, ret>>

\* line 38: entries = self._load_entries()
CommitLoad(p) ==
    /\ procs[p].pc = "load"
    /\ procs' = [procs EXCEPT ![p].pc = "append", ![p].entries = _load_entries(file)]
    /\ UNCHANGED <<storage_mode, file, ns, mediumUp, ret>>

\* line 39: entries.append(entry)
CommitAppend(p) ==
    /\ procs[p].pc = "append"
    /\ procs' = [procs EXCEPT ![p].pc = "save",
                              ![p].entries = Append(procs[p].entries, procs[p].entry[1])]
    /\ UNCHANGED <<storage_mode, file, ns, mediumUp, ret>>

\* line 40: self._save_entries(entries), and commit returns
CommitSave(p) ==
    /\ procs[p].pc = "save"
    /\ file' = save_truncating(file, procs[p].entries)
    /\ procs' = [procs EXCEPT ![p].pc = "done"]
    /\ ret' = Call("commit", procs[p].entry[1], None, FALSE)
    /\ UNCHANGED <<storage_mode, ns, mediumUp>>

\* the entries committed under SpecRace
RaceEntries == {ErrorEntry(id, <<"a">>, <<"B">>, 0, None, <<>>) : id \in Ids}

\* two processes on one local file, each step of a commit on its own
InitRace ==
    /\ storage_mode = LOCAL_MODE
    /\ file = _save_entries(<<>>)
    /\ ns = {}
    /\ mediumUp = TRUE
    /\ procs = [p \in Procs |-> Idle]
    /\ ret = NoCall

NextRace ==
    \/ \E p \in Procs, entry \in RaceEntries : CommitCall(p, entry)
    \/ \E p \in Procs : CommitLoad(p)
    \/ \E p \in Procs : CommitAppend(p)
    \/ \E p \in Procs : CommitSave(p)

SpecRace == InitRace /\ [][NextRace]_vars

\* the entries committed under SpecLocal
LocalEntries ==
    {ErrorEntry(id, error_text, <<"a", "B">>, 0, None, <<>>) :
        id \in Ids, error_text \in {<<"B">>, <<"B", "a">>}}

\* the local backend under all five contract operations
InitLocal ==
    /\ storage_mode = LOCAL_MODE
    /\ file = _save_entries(<<>>)
    /\ ns = {}
    /\ mediumUp = TRUE
    /\ procs = [p \in Procs |-> Idle]
    /\ ret = NoCall

NextLocal ==
    \/ \E entry \in LocalEntries : LocalCommit(entry)
    \/ \E query \in Queries, limit \in Limits : LocalSearch(query, limit)
    \/ LocalGetAll
    \/ \E error_id \in Ids : LocalDelete(error_id)
    \/ LocalCount

SpecLocal == InitLocal /\ [][NextLocal]_vars

\* the tags given with --tag: plain, with a blank in front, empty, with a comma
Tags == {<<"x">>, <<"y">>, <<Space, "x">>, <<>>, <<"x", Comma, "y">>}

\* the lists of at most MaxTags tags, in the order entered, repeats allowed
TagListsUpTo(n) == UNION {[1..k -> Tags] : k \in 0..n}

\* the entries committed under SpecTags
TagEntries ==
    {ErrorEntry("u1", <<"a">>, <<"B">>, 0, None, tags) : tags \in TagListsUpTo(MaxTags)}

\* the remote backend with tag lists that exercise the comma-joined encoding
InitTags ==
    /\ storage_mode = TURBOPUFFER_MODE
    /\ file = _save_entries(<<>>)
    /\ ns = {}
    /\ mediumUp = TRUE
    /\ procs = [p \in Procs |-> Idle]
    /\ ret = NoCall

NextTags ==
    \/ \E entry \in TagEntries : RemoteCommit(entry)
    \/ \E limit \in Limits : RemoteSearch(<<"a">>, limit)
    \/ RemoteGetAll
    \/ MediumFlip

SpecTags == InitTags /\ [][NextTags]_vars

----------------------------------------------------------------------------
(* Properties *)

\* the ids of the entries get_all reads from the file f
StoredIds(f) == {local_get_all(f)[i].id : i \in 1..Len(local_get_all(f))}

\* how many records of the sequence equal e
Occurrences(entries, e) == Cardinality({i \in 1..Len(entries) : entries[i] = e})

\* C1: local backend: a commit of an entry whose id is not stored returns
\* normally, and afterwards get_all holds exactly one record equal to the
\* entry and count is one more than before.
C1_CommitAddsOneRecord ==
    [][(/\ storage_mode = LOCAL_MODE
        /\ CallOp(ret') = "commit"
        /\ CallArg(ret').id \notin StoredIds(file))
       => (/\ ~CallRaised(ret')
           /\ Occurrences(local_get_all(file'), CallArg(ret')) = 1
           /\ local_count(file') = local_count(file) + 1)]_vars

\* a commit of a new id into a file that already held two entries
C1_Witness ==
    /\ storage_mode = LOCAL_MODE
    /\ CallOp(ret) = "commit"
    /\ Len(file) = 3
    /\ Cardinality({i \in 1..Len(file) : local_get_all(file)[i].id = CallArg(ret).id}) = 1
    /\ local_get_all(file)[3] = CallArg(ret)

\* C2: local backend: delete of a stored id returns true and leaves no entry
\* of that id; no call but commit brings an id back; delete of an id that is
\* not stored, and so a second delete of the same id, returns false and
\* leaves the file as it was.
C2_DeleteThenDeleteAgain ==
    [][storage_mode = LOCAL_MODE
       => /\ (CallOp(ret') = "delete" /\ CallArg(ret') \in StoredIds(file))
                => (CallResult(ret') = TRUE /\ CallArg(ret') \notin StoredIds(file'))
          /\ (CallOp(ret') = "delete" /\ CallArg(ret') \notin StoredIds(file))
                => (CallResult(ret') = FALSE /\ file' = file)
          /\ (CallOp(ret) = "delete" /\ CallOp(ret') = "delete" /\ CallArg(ret') = CallArg(ret))
                => (CallResult(ret') = FALSE /\ file' = file)
          /\ CallOp(ret') # "commit" => StoredIds(file') \subseteq StoredIds(file)]_vars

\* a delete that returned true, took both records of its id and left another
C2_Witness ==
    /\ storage_mode = LOCAL_MODE
    /\ CallOp(ret) = "delete"
    /\ CallResult(ret) = TRUE
    /\ Len(file) = 1
    /\ CallArg(ret) \notin StoredIds(file)

\* the ids of the rows of the namespace n
RowIds(n) == {r.id : r \in n}

\* C3: remote backend: delete returns true only when a row of that id was
\* removed, and returns false for an id that is not stored while the medium
\* works.
C3_RemoteDeleteReportsRemoval ==
    [][(/\ storage_mode = TURBOPUFFER_MODE
        /\ mediumUp' = mediumUp
        /\ CallOp(ret') = "delete")
       => /\ CallResult(ret') = TRUE
                => (CallArg(ret') \in RowIds(ns) /\ CallArg(ret') \notin RowIds(ns'))
          /\ (mediumUp /\ CallArg(ret') \notin RowIds(ns)) => CallResult(ret') = FALSE]_vars

\* C4: remote backend: while the medium raises, commit raises, and search,
\* get_all and delete return [], [] and False and do not raise.
C4_RemoteErrorHandling ==
    [][(/\ storage_mode = TURBOPUFFER_MODE
        /\ ~mediumUp
        /\ mediumUp' = mediumUp)
       => /\ CallOp(ret') = "commit" => CallRaised(ret')
          /\ CallOp(ret') = "search" => (~CallRaised(ret') /\ CallResult(ret') = <<>>)
          /\ CallOp(ret') = "get_all" => (~CallRaised(ret') /\ CallResult(ret') = <<>>)
          /\ CallOp(ret') = "delete" => (~CallRaised(ret') /\ CallResult(ret') = FALSE)]_vars

\* get_all gave [] for a namespace that holds rows, the medium being down
C4_Witness ==
    /\ storage_mode = TURBOPUFFER_MODE
    /\ ~mediumUp
    /\ ns # {}
    /\ CallOp(ret) = "get_all"
    /\ ~CallRaised(ret)
    /\ CallResult(ret) = <<>>

\* C5: in every state of either backend count() is the length of what
\* get_all() returns in that state, whatever order the medium exports in.
C5_CountIsLenGetAll ==
    /\ storage_mode = LOCAL_MODE => local_count(file) = Len(local_get_all(file))
    /\ storage_mode = TURBOPUFFER_MODE
          => \A o1, o2 \in ExportOrders(ns) :
                /\ ~remote_count(ns, mediumUp, o1).raised
                /\ ~remote_get_all(ns, mediumUp, o2).raised
                /\ remote_count(ns, mediumUp, o1).result
                      = Len(remote_get_all(ns, mediumUp, o2).result)

\* count() returned 3 for a file in which two records share an id
C5_Witness ==
    /\ storage_mode = LOCAL_MODE
    /\ CallOp(ret) = "count"
    /\ CallResult(ret) = 3
    /\ Cardinality(StoredIds(file)) = 2

\* C6: in every state reached by commits and deletes no two stored entries
\* of a backend have the same id.
C6_IdsAreUnique ==
    /\ storage_mode = LOCAL_MODE
          => \A i, j \in 1..Len(local_get_all(file)) :
                i # j => local_get_all(file)[i].id # local_get_all(file)[j].id
    /\ storage_mode = TURBOPUFFER_MODE
          => \A r1, r2 \in ns : r1 # r2 => r1.id # r2.id

\* no result of the sequence has a lower score than the one after it
IsDescending(results) ==
    \A i \in 1..(Len(results) - 1) : ~Less(results[i].score, results[i + 1].score)

\* the results that clear the threshold for the query of the last search,
\* as the loop collects them, before the sort and the cut
KeptOfLastSearch == scored(local_get_all(file), CallArg(ret)[1])

\* C7: a local search returns its results in descending order of score, and
\* search(query, 1) returns a result whose score is the highest of all the
\* results kept for that query.
C7_SortedAndBestFirst ==
    CallOp(ret) = "search"
    => /\ IsDescending(CallResult(ret))
       /\ (CallArg(ret)[2] = 1 /\ KeptOfLastSearch # <<>>)
             => /\ Len(CallResult(ret)) = 1
                /\ \E i \in 1..Len(KeptOfLastSearch) :
                      KeptOfLastSearch[i] = CallResult(ret)[1]
                /\ \A i \in 1..Len(KeptOfLastSearch) :
                      ~Less(CallResult(ret)[1].score, KeptOfLastSearch[i].score)

\* a search with limit 1 over three kept results, the best of which was
\* not the first in the file
C7_Witness ==
    /\ CallOp(ret) = "search"
    /\ CallArg(ret)[2] = 1
    /\ Len(KeptOfLastSearch) = 3
    /\ Len(CallResult(ret)) = 1
    /\ Less(KeptOfLastSearch[1].score, CallResult(ret)[1].score)

\* C8, as claimed: for every query and every integer limit the result of a
\* local search has at most limit entries.
C8_LengthAtMostLimit ==
    CallOp(ret) = "search" => Len(CallResult(ret)) <= CallArg(ret)[2]

\* C8, amended: for every query and every limit >= 0 the result of a local
\* search has at most limit entries.
C8_LengthAtMostNonNegativeLimit ==
    (CallOp(ret) = "search" /\ CallArg(ret)[2] >= 0)
    => Len(CallResult(ret)) <= CallArg(ret)[2]

\* a search with limit 2 that cut three kept results down to two
C8_Witness ==
    /\ CallOp(ret) = "search"
    /\ CallArg(ret)[2] = 2
    /\ Len(KeptOfLastSearch) = 3
    /\ Len(CallResult(ret)) = 2

\* the two texts have no character in common, case aside
NoCommonCharacter(x, y) ==
    \A i \in 1..Len(x), j \in 1..Len(y) : LowerChar(x[i]) # LowerChar(y[j])

\* the entry is among the results
IsReturned(results, entry) == \E i \in 1..Len(results) : results[i].entry = entry

\* the stored entries that share no character with the query of the last
\* search, neither in error_text nor in message
Unrelated ==
    {e \in {local_get_all(file)[i] : i \in 1..Len(file)} :
        /\ NoCommonCharacter(CallArg(ret)[1], e.error_text)
        /\ NoCommonCharacter(CallArg(ret)[1], e.message)}

\* C9, as claimed: an entry whose error_text and message share no
\* character with the query scores at most 0.2 and is not returned.
C9_UnrelatedExcluded ==
    CallOp(ret) = "search"
    => \A e \in Unrelated :
          /\ ~Less(Threshold, combined_score(CallArg(ret)[1], e))
          /\ ~IsReturned(CallResult(ret), e)

\* C9, amended: when the query and the error_text are both non-empty, an
\* entry whose error_text and message share no character with the query
\* (case aside) scores at most 0.2 and is not returned.
C9_UnrelatedNonEmptyExcluded ==
    (CallOp(ret) = "search" /\ CallArg(ret)[1] # <<>>)
    => \A e \in Unrelated :
          e.error_text # <<>>
          => /\ ~Less(Threshold, combined_score(CallArg(ret)[1], e))
             /\ ~IsReturned(CallResult(ret), e)

\* a search for "a" that returned something, over a file that also holds
\* an entry with error_text "B" and an empty message, which it left out
C9_Witness ==
    /\ CallOp(ret) = "search"
    /\ CallArg(ret) = <<<<"a">>, DefaultLimit>>
    /\ CallResult(ret) # <<>>
    /\ \E e \in Unrelated : e.error_text = <<"B">> /\ ~IsReturned(CallResult(ret), e)

\* x occurs in y as a contiguous piece
Occurs(x, y) == \E pre, post \in 0..Len(y) :
                    /\ pre + Len(x) + post = Len(y)
                    /\ \A k \in 1..Len(x) : y[pre + k] = x[k]

\* the stored entries whose lowercased error_text contains the lowercased
\* query of the last search, or is contained in it
SubstringMatches ==
    {e \in {local_get_all(file)[i] : i \in 1..Len(file)} :
        \/ Occurs(lower(CallArg(ret)[1]), lower(e.error_text))
        \/ Occurs(lower(e.error_text), lower(CallArg(ret)[1]))}

NineTenths == <<9, 10>>

\* C10: an entry whose lowercased error_text contains the lowercased query,
\* or is contained in it, is kept before the cut with a score >= 0.9 (and
\* is returned with it when the limit does not cut).
C10_SubstringScoresHigh ==
    CallOp(ret) = "search"
    => \A e \in SubstringMatches :
          /\ \E i \in 1..Len(KeptOfLastSearch) :
                /\ KeptOfLastSearch[i].entry = e
                /\ ~Less(KeptOfLastSearch[i].score, NineTenths)
          /\ CallArg(ret)[2] >= Len(file)
                => \E i \in 1..Len(CallResult(ret)) :
                      /\ CallResult(ret)[i].entry = e
                      /\ ~Less(CallResult(ret)[i].score, NineTenths)

\* a search for "Ab" returned the entry with error_text "B", contained in
\* the query once both are lowercased
C10_Witness ==
    /\ CallOp(ret) = "search"
    /\ CallArg(ret)[1] = <<"A", "b">>
    /\ \E i \in 1..Len(CallResult(ret)) :
          /\ CallResult(ret)[i].entry.error_text = <<"B">>
          /\ CallResult(ret)[i].entry \in SubstringMatches
          /\ ~Less(CallResult(ret)[i].score, NineTenths)

\* no tag of the list holds a comma
NoComma(tags) == \A i \in 1..Len(tags) : \A k \in 1..Len(tags[i]) : tags[i][k] # Comma

\* no tag of the list is empty or begins or ends with white space
NoBlankEnds(tags) ==
    \A i \in 1..Len(tags) :
        /\ tags[i] # <<>>
        /\ tags[i][1] # Space
        /\ tags[i][Len(tags[i])] # Space

\* with the medium working, get_all returns the entry's id, and get_all and
\* search return it with exactly the entry's tags
ReadsBackTagsOf(entry) ==
    /\ \A order \in ExportOrders(ns) :
          LET all == remote_get_all(ns, TRUE, order).result
          IN  /\ \E i \in 1..Len(all) : all[i].id = entry.id
              /\ \A i \in 1..Len(all) : all[i].id = entry.id => all[i].tags = entry.tags
    /\ \A answer \in QueryAnswers(ns, DefaultLimit) :
          LET found == remote_search(ns, TRUE, answer).result
          IN  \A i \in 1..Len(found) :
                 found[i].entry.id = entry.id => found[i].entry.tags = entry.tags

\* C11, as claimed: an entry whose tags hold no comma, once committed to the
\* remote backend, is read back by get_all and search with the same tags in
\* the same order.
C11_TagsWithoutCommaRoundTrip ==
    (/\ CallOp(ret) = "commit"
     /\ ~CallRaised(ret)
     /\ NoComma(CallArg(ret).tags))
    => ReadsBackTagsOf(CallArg(ret))

\* C11, amended: the same for an entry whose tags hold no comma, are not
\* empty and neither begin nor end with white space.
C11_CleanTagsRoundTrip ==
    (/\ CallOp(ret) = "commit"
     /\ ~CallRaised(ret)
     /\ NoComma(CallArg(ret).tags)
     /\ NoBlankEnds(CallArg(ret).tags))
    => ReadsBackTagsOf(CallArg(ret))

\* the entry with the tags x, y was committed and its row holds "x,y"
C11_Witness ==
    /\ CallOp(ret) = "commit"
    /\ ~CallRaised(ret)
    /\ CallArg(ret).tags = <<<<"x">>, <<"y">>>>
    /\ \E r \in ns : r.id = CallArg(ret).id /\ r.tags = <<"x", Comma, "y">>

\* C12: two processes run commit as load, append, save on one file, their
\* steps interleaved in any order: a save leaves in the file exactly the list
\* of the process that saves (what it had loaded, then its entry), whatever
\* the other process wrote since; the last writer wins.
C12_LastWriterWins ==
    [][\A p \in Procs :
          (procs[p].pc = "save" /\ procs'[p].pc = "done")
          => /\ _load_entries(file') = procs[p].entries
             /\ CallOp(ret') = "commit" /\ ~CallRaised(ret')]_vars

\* both commits returned, of entries with different ids, and the file holds
\* one entry only: the other commit is lost
C12_Witness ==
    /\ \A p \in Procs : procs[p].pc = "done"
    /\ procs["p1"].entry[1].id # procs["p2"].entry[1].id
    /\ Len(file) = 1
    /\ _load_entries(file)[1] = procs["p2"].entry[1]

\* base score + 0.3 * (similarity ratio of query and message)
BasePlusWeightedMessage(query, e) ==
    Plus(base_score(lower(query), e),
         Times(MessageWeight, ratio(lower(query), lower(e.message))))

OneFifth == <<1, 5>>

\* C13: every result of a local search has the score base + 0.3 * message
\* ratio, which is > 0.2 and not lower than the entry's base score; and when
\* the limit is at least the number of stored entries, an entry is returned
\* if and only if that score is > 0.2.
C13_KeptIffAboveThreshold ==
    CallOp(ret) = "search"
    => /\ \A i \in 1..Len(CallResult(ret)) :
             LET r == CallResult(ret)[i]
                 sum == BasePlusWeightedMessage(CallArg(ret)[1], r.entry)
             IN  /\ ~Less(r.score, sum) /\ ~Less(sum, r.score)
                 /\ Less(OneFifth, r.score)
                 /\ ~Less(r.score, base_score(lower(CallArg(ret)[1]), r.entry))
       /\ CallArg(ret)[2] >= Len(file)
             => \A k \in 1..Len(file) :
                   LET e == local_get_all(file)[k]
                   IN  IsReturned(CallResult(ret), e)
                       <=> Less(OneFifth, BasePlusWeightedMessage(CallArg(ret)[1], e))

\* a search for "a" without a cut that left out the entry "B"/"aB", whose
\* score is exactly 0.2, and returned one whose message raised its score
C13_Witness ==
    /\ CallOp(ret) = "search"
    /\ CallArg(ret) = <<<<"a">>, DefaultLimit>>
    /\ \E k \in 1..Len(file) :
          LET e == local_get_all(file)[k]
          IN  /\ e.error_text = <<"B">> /\ e.message = <<"a", "B">>
              /\ ~Less(BasePlusWeightedMessage(<<"a">>, e), OneFifth)
              /\ ~IsReturned(CallResult(ret), e)
    /\ \E i \in 1..Len(CallResult(ret)) :
          Less(base_score(<<"a">>, CallResult(ret)[i].entry), CallResult(ret)[i].score)

\* the positions of the entries whose id is not error_id
OtherPositions(entries, error_id) == {i \in 1..Len(entries) : entries[i].id # error_id}

\* after is before without the entries of error_id: the others, each as it
\* was, in the order they had
IsBeforeWithoutId(after, before, error_id) ==
    LET others == OtherPositions(before, error_id)
    IN  /\ Len(after) = Cardinality(others)
        /\ \A i \in others :
              after[Cardinality({j \in others : j <= i})] = before[i]

\* C14: on the local backend commit(entry) keeps every stored entry as it
\* was and where it was and puts the new entry last; delete(id) keeps every
\* entry of another id as it was, in the same relative order; search,
\* get_all and count leave the stored collection as it was.
C14_LocalFrame ==
    [][storage_mode = LOCAL_MODE
       => /\ CallOp(ret') = "commit"
                => /\ Len(local_get_all(file')) = Len(local_get_all(file)) + 1
                   /\ \A i \in 1..Len(local_get_all(file)) :
                         local_get_all(file')[i] = local_get_all(file)[i]
                   /\ local_get_all(file')[Len(local_get_all(file'))] = CallArg(ret')
          /\ CallOp(ret') = "delete"
                => IsBeforeWithoutId(local_get_all(file'), local_get_all(file),
                                     CallArg(ret'))
          /\ CallOp(ret') \in {"search", "get_all", "count"}
                => (file' = file /\ local_get_all(file') = local_get_all(file))]_vars

\* a delete returned true and left two entries of the other id, which
\* differ from each other
C14_Witness ==
    /\ storage_mode = LOCAL_MODE
    /\ CallOp(ret) = "delete"
    /\ CallResult(ret) = TRUE
    /\ Len(file) = 2
    /\ local_get_all(file)[1] # local_get_all(file)[2]
    /\ \A i \in 1..2 : local_get_all(file)[i].id # CallArg(ret)

====
